---- MODULE Spec2Model ----
(***************************************************************************)
(* A model of vmod-fileserver (src/src/lib.rs): a Varnish backend that     *)
(* serves files from a root directory.                                     *)
(*                                                                         *)
(*   SpecPath   - assemble_file_path, the lexical URL -> path mapping      *)
(*   SpecMime   - build_mime_dict, the loop over the lines of a database   *)
(*   SpecReq    - be_gethdrs: methods, conditional headers, failures       *)
(*   SpecEtag   - be_gethdrs: validators across changes of inode and size  *)
(*   SpecType   - be_gethdrs: URLs, extensions and the MIME table          *)
(*   SpecStream - BackendResp: the host's pulls while the file is resized  *)
(*                                                                         *)
(* Strings whose characters matter (paths, URLs, database lines, header    *)
(* values) are sequences of one-character strings.                         *)
(***************************************************************************)
EXTENDS Integers, Sequences, FiniteSets, TLC

VARIABLES
    \* ---- assemble_file_path (SpecPath)
    pathState,      \* "idle" | "done"
    pathRoot,       \* root_path of the last call
    pathUrl,        \* url of the last call
    pathOut,        \* the returned path
    \* ---- build_mime_dict (SpecMime)
    mimeState,      \* "reading" | "ok" | "duperr" | "ioerr"
    mimeRead,       \* per line consumed so far, the (extension, type) pairs it lists
    mimeH,          \* the HashMap h
    mimeErr,        \* the fields of the duplicate-extension error
    \* ---- one backend and the requests it serves
    mimes,          \* BackendInfo.mimes: [some, h]
    file,           \* the file the resolved path names: [exists, ino, size, mtime]
    phase,          \* "idle" | "body" (a stream is attached) | "done"
    req,            \* the request being served: [method, inm, ims, url]
    resp,           \* what be_gethdrs left behind for the host
    handle,         \* the opened File: [opened, released, owner, size]
    stream          \* the BackendResp pushed for the response

pathVars == <<pathState, pathRoot, pathUrl, pathOut>>
mimeVars == <<mimeState, mimeRead, mimeH, mimeErr>>
reqVars == <<mimes, file, phase, req, resp, handle, stream>>
vars == <<pathVars, mimeVars, reqVars>>

\* --------------------------------------------------------------- bounds
MaxUrlLen == 8
MaxLineLen == 3
MaxLines == 2
MaxSize == 2        \* file sizes 0..MaxSize
MaxTick == 2        \* modification times 0..MaxTick, in ticks
TicksPerSec == 2    \* sub-second resolution of a modification time
BufCap == 2         \* capacity of the BufReader (8192 in std)
MaxBuf == 3         \* largest buffer the host hands to pull

SeqsUpTo(S, n) == UNION {[1..k -> S] : k \in 0..n}

\* ------------------------------------------------------------ helpers
Min(a, b) == IF a < b THEN a ELSE b
Max(a, b) == IF a > b THEN a ELSE b

\* ======================================================================
\* assemble_file_path
\* ======================================================================
UrlChars == {"/", ".", "a"}
Urls == SeqsUpTo(UrlChars, MaxUrlLen)
\* root paths a backend can be built with (never empty, see root::new)
Roots == {<<"/", "r">>, <<"/", "r", "/">>, <<"r">>}

\* the pieces of s between '/' separators
RECURSIVE SplitSlash(_)
SplitSlash(s) ==
    IF s = <<>> THEN << <<>> >>
    ELSE LET rest == SplitSlash(Tail(s)) IN
         IF Head(s) = "/" THEN << <<>> >> \o rest
         ELSE << <<Head(s)>> \o Head(rest) >> \o Tail(rest)

\* std::path::Path::components() on unix: a leading '/' is RootDir, empty
\* pieces and non-leading '.' pieces vanish, a leading '.' is CurDir, '..' is
\* ParentDir, everything else is Normal
Components(url) ==
    LET pieces == SplitSlash(url)
        has_root == url # <<>> /\ url[1] = "/"
        Kind(k) == IF pieces[k] = <<>> THEN "Skip"
                   ELSE IF pieces[k] = <<".">>
                        THEN (IF k = 1 THEN "CurDir" ELSE "Skip")
                   ELSE IF pieces[k] = <<".", ".">> THEN "ParentDir"
                   ELSE "Normal"
        all == [k \in 1..Len(pieces) |-> [kind |-> Kind(k), s |-> pieces[k]]]
        body == SelectSeq(all, LAMBDA c : c.kind # "Skip")
    IN  IF has_root THEN <<[kind |-> "RootDir", s |-> <<>>]>> \o body ELSE body

\* a variant that treats '..' like any other segment
PushComponentKeepParent(components, c) ==
    CASE c.kind = "RootDir" -> components
      [] c.kind = "CurDir" -> components
      [] OTHER -> Append(components, c.s)

\* one iteration of the match over url_path.components()
PushComponent(components, c) ==
    CASE c.kind = "RootDir" -> components
      [] c.kind = "CurDir" -> components
      [] c.kind = "ParentDir" ->
            \* Vec::pop on an empty Vec is a no-op
            IF components = <<>> THEN components
            ELSE SubSeq(components, 1, Len(components) - 1)
      [] c.kind = "Normal" -> Append(components, c.s)

RECURSIVE CollectComponents(_, _)
CollectComponents(components, cs) ==
    IF cs = <<>> THEN components
    ELSE CollectComponents(PushComponent(components, Head(cs)), Tail(cs))

RECURSIVE PushSegments(_, _)
PushSegments(complete_path, components) ==
    IF components = <<>> THEN complete_path
    ELSE PushSegments(complete_path \o <<"/">> \o Head(components),
                      Tail(components))

assemble_file_path(root_path, url) ==
    PushSegments(root_path, CollectComponents(<<>>, Components(url)))

AssemblePath ==
    /\ pathState = "idle"
    /\ \E R \in Roots, U \in Urls :
        /\ pathState' = "done"
        /\ pathRoot' = R
        /\ pathUrl' = U
        /\ pathOut' = assemble_file_path(R, U)
        /\ UNCHANGED <<mimeVars, reqVars>>

PathIdle ==
    /\ pathState = "idle"
    /\ pathRoot = <<>>
    /\ pathUrl = <<>>
    /\ pathOut = <<>>

\* ======================================================================
\* build_mime_dict
\* ======================================================================
LineChars == {" ", "#", "a", "A"}
Lines == SeqsUpTo(LineChars, MaxLineLen)
DbPath == "mime.types"

\* str::split_whitespace: the maximal runs of non-blank characters
RECURSIVE SplitWhitespace(_)
SplitWhitespace(l) ==
    IF l = <<>> THEN <<>>
    ELSE IF Head(l) = " " THEN SplitWhitespace(Tail(l))
    ELSE LET rest == SplitWhitespace(Tail(l)) IN
         IF Len(l) > 1 /\ l[2] # " "
         THEN << <<Head(l)>> \o Head(rest) >> \o Tail(rest)
         ELSE << <<Head(l)>> >> \o rest

NoMimeErr == [path |-> "", ext |-> <<>>, old |-> <<>>, new |-> <<>>]

\* a variant in which a later mapping silently replaces an earlier one
RECURSIVE InsertExtsOverwrite(_, _, _)
InsertExtsOverwrite(h, mime, exts) ==
    IF exts = <<>> THEN [h |-> h, err |-> NoMimeErr]
    ELSE LET ext == Head(exts) IN
         InsertExtsOverwrite(
             [x \in DOMAIN h \cup {ext} |-> IF x = ext THEN mime ELSE h[x]],
             mime, Tail(exts))

\* the for loop over the extension tokens of one line
RECURSIVE InsertExts(_, _, _)
InsertExts(h, mime, exts) ==
    IF exts = <<>> THEN [h |-> h, err |-> NoMimeErr]
    ELSE LET ext == Head(exts) IN
         IF ext \in DOMAIN h
         THEN [h |-> h,
               err |-> [path |-> DbPath, ext |-> ext, old |-> h[ext], new |-> mime]]
         ELSE InsertExts(
                  [x \in DOMAIN h \cup {ext} |-> IF x = ext THEN mime ELSE h[x]],
                  mime, Tail(exts))

\* the body of the loop over the lines
MimeLineStep(h, l) ==
    LET ws == SplitWhitespace(l) IN
    IF ws = <<>> THEN [h |-> h, err |-> NoMimeErr]
    ELSE IF Head(Head(ws)) = "#" THEN [h |-> h, err |-> NoMimeErr]
    ELSE InsertExts(h, Head(ws), Tail(ws))

EmptyMap == [x \in {} |-> <<>>]

\* what a line of the database says, read off the file format: nothing for a
\* blank line or a comment, else one (extension, type) pair per token after
\* the first
LinePairs(l) ==
    LET ws == SplitWhitespace(l) IN
    IF ws = <<>> \/ ws[1][1] = "#" THEN <<>>
    ELSE [k \in 1..(Len(ws) - 1) |-> [ext |-> ws[k + 1], mime |-> ws[1]]]

MimeIdle ==
    /\ mimeState = "reading"
    /\ mimeRead = <<>>
    /\ mimeH = EmptyMap
    /\ mimeErr = NoMimeErr

\* one iteration of `for line in BufReader::new(f).lines()`
MimeReadLine ==
    /\ mimeState = "reading"
    /\ Len(mimeRead) < MaxLines
    /\ \E l \in Lines :
          LET r == MimeLineStep(mimeH, l) IN
          /\ mimeRead' = Append(mimeRead, LinePairs(l))
          /\ mimeH' = r.h
          /\ mimeErr' = r.err
          /\ mimeState' = IF r.err = NoMimeErr THEN "reading" ELSE "duperr"
    /\ UNCHANGED <<pathVars, reqVars>>

\* File::open(path)? or line? fails
MimeIoError ==
    /\ mimeState = "reading"
    /\ mimeState' = "ioerr"
    /\ UNCHANGED <<mimeRead, mimeH, mimeErr, pathVars, reqVars>>

\* the iterator is exhausted: Ok(h)
MimeEof ==
    /\ mimeState = "reading"
    /\ mimeState' = "ok"
    /\ UNCHANGED <<mimeRead, mimeH, mimeErr, pathVars, reqVars>>

\* ======================================================================
\* the backend (root::new), be_gethdrs and BackendResp
\* ======================================================================
InfoPath == <<"/", "r">>
Methods == {"GET", "HEAD", "PUT"}
\* bereq.url values: /f.t /f /../f.x /.t
UrlMapped == <<"/", "f", ".", "t">>
ReqUrls == {UrlMapped, <<"/", "f">>,
            <<"/", ".", ".", "/", "f", ".", "x">>, <<"/", ".", "t">>}
\* a database of one line, "m t"
SampleDb == << <<"m", " ", "t">> >>

RECURSIVE build_mime_dict(_, _)
build_mime_dict(h, lines) ==
    IF lines = <<>> THEN [ok |-> TRUE, h |-> h]
    ELSE LET r == MimeLineStep(h, Head(lines)) IN
         IF r.err # NoMimeErr THEN [ok |-> FALSE, h |-> EmptyMap]
         ELSE build_mime_dict(r.h, Tail(lines))

NoMimes == [some |-> FALSE, h |-> EmptyMap]
\* the three ways root::new fills BackendInfo.mimes: None (no table wanted, or
\* the default database unreadable) or Some(table)
MimesOfNew(lines) ==
    LET r == build_mime_dict(EmptyMap, lines) IN
    IF r.ok THEN [some |-> TRUE, h |-> r.h] ELSE NoMimes

MaxSec == MaxTick \div TicksPerSec
Inodes == {1, 2}
NoFile == [exists |-> FALSE, ino |-> 0, size |-> 0, mtime |-> 0]
Files == {NoFile} \cup
         [exists : {TRUE}, ino : Inodes, size : 0..MaxSize, mtime : 0..MaxTick]

NoHeader == [present |-> FALSE, v |-> <<>>]
Hdr(v) == [present |-> TRUE, v |-> v]
Junk == <<"x">>
Weak(v) == <<"W", "/">> \o v
\* an RFC 2822 date naming second n, as a client writes it
DateText(n) == <<"date", ToString(n)>>

\* std::path::Path::extension: of the last component, what follows its last
\* '.', unless there is none or it is the first character
Extension(path) ==
    LET cs == Components(path) IN
    IF cs = <<>> \/ cs[Len(cs)].kind # "Normal" THEN NoHeader
    ELSE LET name == cs[Len(cs)].s
             dots == {i \in 1..Len(name) : name[i] = "."}
             d == CHOOSE i \in dots : \A k \in dots : k <= i
         IN  IF dots = {} \/ d = 1 THEN NoHeader
             ELSE Hdr(SubSeq(name, d + 1, Len(name)))

\* stands for DefaultHasher (SipHash with fixed keys) over the three fields of
\* ShortMd in order: a deterministic, order-sensitive mix of the three
Hash64(ino, size, mtime) ==
    ((ino * 31) + size) * 31 + mtime

generate_etag(metadata) ==
    <<"\"", ToString(Hash64(metadata.ino, metadata.size, metadata.mtime)), "\"">>

\* DateTime::parse_from_rfc2822, to ticks
ParseRfc2822(v) ==
    IF Len(v) = 2 /\ v[1] = "date" /\ \E n \in 0..MaxSec : ToString(n) = v[2]
    THEN [ok |-> TRUE,
          t |-> TicksPerSec * (CHOOSE n \in 0..MaxSec : ToString(n) = v[2])]
    ELSE [ok |-> FALSE, t |-> 0]

\* modified.format(..): whole seconds
FormatModified(mtime) == <<"date", ToString(mtime \div TicksPerSec)>>

\* a variant that knows no weak validators
IsNotModifiedStrongOnly(rq, etag, modified) ==
    IF rq.inm.present THEN rq.inm.v = etag
    ELSE IF rq.ims.present
         THEN LET t == ParseRfc2822(rq.ims.v) IN t.ok /\ t.t > modified
         ELSE FALSE

\* a variant that falls through to if-modified-since when the etag differs
IsNotModifiedFallThrough(rq, etag, modified) ==
    \/ /\ rq.inm.present
       /\ \/ rq.inm.v = etag
          \/ /\ Len(rq.inm.v) >= 2
             /\ SubSeq(rq.inm.v, 1, 2) = <<"W", "/">>
             /\ SubSeq(rq.inm.v, 3, Len(rq.inm.v)) = etag
    \/ /\ rq.ims.present
       /\ LET t == ParseRfc2822(rq.ims.v) IN t.ok /\ t.t > modified

\* "can we avoid sending a body?"
IsNotModified(rq, etag, modified) ==
    IF rq.inm.present
    THEN \/ rq.inm.v = etag
         \/ /\ Len(rq.inm.v) >= 2
            /\ SubSeq(rq.inm.v, 1, 2) = <<"W", "/">>
            /\ SubSeq(rq.inm.v, 3, Len(rq.inm.v)) = etag
    ELSE IF rq.ims.present
         THEN LET t == ParseRfc2822(rq.ims.v) IN t.ok /\ t.t > modified
         ELSE FALSE

\* a variant with the two tests joined by 'or'
MethodAllowedNever(method) == ~(method # "HEAD" \/ method # "GET")

MethodAllowed(method) == ~(method # "HEAD" /\ method # "GET")

\* a variant that gives empty files a type too
ContentTypeAnySize(cl, path, m) ==
    LET ext == Extension(path) IN
    IF ext.present /\ m.some /\ ext.v \in DOMAIN m.h
    THEN Hdr(m.h[ext.v]) ELSE NoHeader

\* "we only care about content-type if there's content"
ContentType(cl, path, m) ==
    LET ext == Extension(path) IN
    IF cl > 0 /\ ext.present /\ m.some /\ ext.v \in DOMAIN m.h
    THEN Hdr(m.h[ext.v]) ELSE NoHeader

NoReq == [method |-> "", inm |-> NoHeader, ims |-> NoHeader, url |-> <<>>]
NoResp == [ret |-> 0, status |-> 0, hdrs |-> EmptyMap, is304 |-> FALSE,
           fails |-> 0, opens |-> 0, attached |-> FALSE, failedAt |-> "none",
           etag |-> <<>>, cl |-> 0, mtime |-> 0, ino |-> 0, htc |-> "null",
           body_status |-> "unset", owner |-> "none"]

\* what the host can refuse, and File::open and metadata() can fail at
FailPoints == {"none", "open", "stat", "ws", "proto", "push",
               "content-length", "etag", "last-modified", "content-type"}

\* a variant that answers a failure with a status
MaybeFailAsStatus(r, at) ==
    [r EXCEPT !.status = 404, !.failedAt = at]

\* the Err arm of maybe_fail!
MaybeFail(r, at) ==
    [r EXCEPT !.htc = "null", !.fails = @ + 1, !.ret = -1, !.failedAt = at]

\* a variant in which the File outlives the call
AtReturnForget(r) == r

\* leaving the function drops f unless it was moved into the BackendResp
AtReturn(r) ==
    IF r.owner = "local" THEN [r EXCEPT !.owner = "closed"] ELSE r

\* beresp.set_header for each of hs in turn, each through maybe_fail!
RECURSIVE SetHeaders(_, _, _)
SetHeaders(r, hs, fp) ==
    IF hs = <<>> THEN r
    ELSE LET name == Head(hs)[1]
             value == Head(hs)[2]
         IN  IF fp = name THEN MaybeFail(r, name)
             ELSE SetHeaders(
                     [r EXCEPT !.hdrs = [n \in DOMAIN r.hdrs \cup {name} |->
                                            IF n = name THEN value ELSE r.hdrs[n]]],
                     Tail(hs), fp)

\* lines 291-341: the status, the body and the headers
StatusAndHeaders(r, m, rq, path, fp) ==
    IF ~MethodAllowed(rq.method)
    THEN [r EXCEPT !.status = 405, !.body_status = "BS_NONE"]
    ELSE LET r4 ==
                 IF r.is304
                 THEN [r EXCEPT !.status = 304, !.body_status = "BS_NONE"]
                 ELSE IF rq.method = "HEAD"
                 THEN [r EXCEPT !.status = 200, !.body_status = "BS_NONE"]
                 ELSE IF fp = "push"
                 THEN [r EXCEPT !.status = 200, !.body_status = "BS_LENGTH",
                                !.ret = -1, !.failedAt = "push"]
                 ELSE [r EXCEPT !.status = 200, !.body_status = "BS_LENGTH",
                                !.attached = TRUE, !.owner = "stream"]
             r5 == SetHeaders(r4, << <<"content-length", <<ToString(r.cl)>> >>,
                                     <<"etag", r.etag>>,
                                     <<"last-modified", FormatModified(r.mtime)>> >>,
                              fp)
             ct == ContentType(r.cl, path, m)
         IN  IF r4.ret # 0 THEN r4
             ELSE IF r5.ret # 0 \/ ~ct.present THEN r5
             ELSE SetHeaders(r5, << <<"content-type", ct.v>> >>, fp)

be_gethdrs(m, f, rq, fp) ==
    LET path == assemble_file_path(InfoPath, rq.url)
        r0 == [NoResp EXCEPT !.opens = 1]
        r1 == [r0 EXCEPT !.owner = "local"]
        r2 == [r1 EXCEPT !.cl = f.size, !.mtime = f.mtime, !.ino = f.ino,
                         !.etag = generate_etag(f),
                         !.is304 = IsNotModified(rq, generate_etag(f), f.mtime)]
        r3 == [r2 EXCEPT !.htc = "set"]
    IN  AtReturn(
          IF ~f.exists \/ fp = "open" THEN MaybeFail(r0, "open")
          ELSE IF fp = "stat" THEN MaybeFail(r1, "stat")
          ELSE IF fp = "ws"
               THEN [r2 EXCEPT !.fails = @ + 1, !.ret = -1, !.failedAt = "ws"]
          ELSE IF fp = "proto" THEN MaybeFail(r3, "proto")
          ELSE StatusAndHeaders(r3, m, rq, path, fp))

NoStream == [limit |-> 0, buf |-> 0, pos |-> 0, delivered |-> 0,
             last |-> "none", lastCap |-> 0, lastN |-> 0]
NoHandle == [opened |-> 0, released |-> 0, owner |-> "none", size |-> 0]

\* the etag header of the response the client saw last, if any
KnownEtags ==
    IF resp.ret = 0 /\ "etag" \in DOMAIN resp.hdrs THEN {resp.hdrs["etag"]} ELSE {}

InmKnown == {NoHeader} \cup {Hdr(e) : e \in KnownEtags}
InmValues == InmKnown \cup {Hdr(Junk)} \cup {Hdr(Weak(e)) : e \in KnownEtags}
ImsValues == {NoHeader, Hdr(Junk)} \cup {Hdr(DateText(n)) : n \in 0..MaxSec}

\* the host calls be_gethdrs for a request drawn from the given sets
Gethdrs(inms, imss, urls) ==
    /\ phase \in {"idle", "done"}
    /\ \E method \in Methods, inm \in inms, ims \in imss, url \in urls,
          fp \in FailPoints :
          LET rq == [method |-> method, inm |-> inm, ims |-> ims, url |-> url] IN
          \E r \in {be_gethdrs(mimes, file, rq, fp)} :
              /\ req' = rq
              /\ resp' = r
              /\ handle' = [opened |-> IF r.owner = "none" THEN 0 ELSE 1,
                            released |-> IF r.owner = "closed" THEN 1 ELSE 0,
                            owner |-> r.owner,
                            size |-> IF r.owner = "stream" THEN file.size ELSE 0]
              /\ stream' = IF r.attached
                           THEN [NoStream EXCEPT !.limit = r.cl]
                           ELSE NoStream
              /\ phase' = IF r.attached THEN "body" ELSE "done"
    /\ UNCHANGED <<mimes, file, pathVars, mimeVars>>

\* any method and conditional headers, for one URL
BeGethdrs == Gethdrs(InmValues, ImsValues, {UrlMapped})

\* any method and if-none-match, with or without a late if-modified-since
BeGethdrsEtag ==
    Gethdrs(InmValues, {NoHeader, Hdr(DateText(MaxSec))}, {UrlMapped})

\* any method and URL, conditional only on an etag seen before
BeGethdrsUrl == Gethdrs(InmKnown, {NoHeader}, ReqUrls)

\* std::fs::File::read on a regular file of the given size
FileRead(pos, size, k) == Min(k, Max(0, size - pos))

\* BufReader::read: straight from the file when the buffer is empty and the
\* request is at least its capacity, else through the buffer
BufRead(s, max, size) ==
    IF s.buf = 0 /\ max >= BufCap
    THEN LET n == FileRead(s.pos, size, max) IN
         [n |-> n, pos |-> s.pos + n, buf |-> 0, touched |-> TRUE]
    ELSE LET filled == IF s.buf = 0 THEN FileRead(s.pos, size, BufCap) ELSE 0
             n == Min(max, s.buf + filled)
         IN  [n |-> n, pos |-> s.pos + filled, buf |-> s.buf + filled - n,
              touched |-> s.buf = 0]

\* a variant without the Take
TakeReadUncapped(s, cap, size, ioerr) ==
    LET b == BufRead(s, cap, size) IN
    IF ioerr /\ b.touched THEN [s EXCEPT !.last = "Err", !.lastCap = cap, !.lastN = 0]
    ELSE [s EXCEPT !.pos = b.pos, !.buf = b.buf,
                   !.limit = Max(0, @ - b.n), !.delivered = @ + b.n,
                   !.last = IF b.n = 0 THEN "End" ELSE "Ok",
                   !.lastCap = cap, !.lastN = b.n]

\* Take::read through BackendResp::pull's match, for a non-empty buffer
TakeRead(s, cap, size, ioerr) ==
    IF s.limit = 0
    THEN [s EXCEPT !.last = "End", !.lastCap = cap, !.lastN = 0]
    ELSE LET b == BufRead(s, Min(cap, s.limit), size) IN
         IF ioerr /\ b.touched
         THEN [s EXCEPT !.last = "Err", !.lastCap = cap, !.lastN = 0]
         ELSE [s EXCEPT !.pos = b.pos, !.buf = b.buf,
                        !.limit = @ - b.n, !.delivered = @ + b.n,
                        !.last = IF b.n = 0 THEN "End" ELSE "Ok",
                        !.lastCap = cap, !.lastN = b.n]

pull(s, cap, size, ioerr) ==
    IF cap = 0 THEN [s EXCEPT !.last = "Ok", !.lastCap = 0, !.lastN = 0]
    ELSE TakeRead(s, cap, size, ioerr)

\* the host asks for the next chunk, until the stream ends or fails
VfpPull ==
    /\ phase = "body"
    /\ resp.ret = 0
    /\ stream.last \notin {"End", "Err"}
    /\ \E cap \in 0..MaxBuf, ioerr \in BOOLEAN :
          stream' = pull(stream, cap, handle.size, ioerr)
    /\ UNCHANGED <<mimes, file, phase, req, resp, handle, pathVars, mimeVars>>

\* a variant of the processor registered without a fini
VfpFiniNone ==
    /\ phase = "body"
    /\ phase' = "done"
    /\ stream' = NoStream
    /\ UNCHANGED <<mimes, file, req, resp, handle, pathVars, mimeVars>>

\* the host closes the fetch pipeline, whether the body was read to its end,
\* in part or not at all: wrap_vfp_fini drops the BackendResp and its File
VfpFini ==
    /\ phase = "body"
    /\ phase' = "done"
    /\ stream' = NoStream
    /\ handle' = [handle EXCEPT !.released = @ + 1, !.owner = "closed", !.size = 0]
    /\ UNCHANGED <<mimes, file, req, resp, pathVars, mimeVars>>

\* something else changes what the path names; a change in place (same
\* inode) is seen through the open handle
FsChangeTo(files) ==
    /\ \E f \in files \ {file} :
          /\ file' = f
          /\ handle' = IF handle.owner = "stream" /\ f.exists /\ f.ino = file.ino
                       THEN [handle EXCEPT !.size = f.size] ELSE handle
    /\ UNCHANGED <<mimes, phase, req, resp, stream, pathVars, mimeVars>>

\* the file is created, removed or touched
FilesTimed == {NoFile} \cup {f \in Files : f.exists /\ f.ino = 1 /\ f.size = MaxSize}
FsTouch == FsChangeTo(FilesTimed)

\* the file is created, removed, rewritten or replaced by another
FilesIdent == {NoFile} \cup {f \in Files : f.exists /\ f.mtime = 0}
FsReplace == FsChangeTo(FilesIdent)

\* in-place growth or truncation that leaves inode and time alone
FsResize ==
    FsChangeTo({f \in Files : f.exists /\ f.ino = file.ino /\ f.mtime = file.mtime})

\* any method, one URL, conditional only on an etag seen before
BeGethdrsPlain == Gethdrs(InmKnown, {NoHeader}, {UrlMapped})

ReqIdle ==
    /\ phase = "idle"
    /\ req = NoReq
    /\ resp = NoResp
    /\ handle = NoHandle
    /\ stream = NoStream

\* ======================================================================
\* claims
\* ======================================================================

\* the segments of rest, a string that is empty or starts with '/': what lies
\* between one '/' and the next (or the end)
SegmentsOf(rest) ==
    LET slashes == {i \in 1..Len(rest) : rest[i] = "/"}
        NextSlash(i) ==
            LET later == {k \in slashes : k > i} IN
            IF later = {} THEN Len(rest) + 1
            ELSE CHOOSE k \in later : \A m \in later : k <= m
    IN  {SubSeq(rest, i + 1, NextSlash(i) - 1) : i \in slashes}

\* C1: the path assemble_file_path returns is the root followed by zero or
\* more '/'+segment pieces, none of them empty, '.' or '..'; so it is the root
\* or starts with root + '/', however many '..' the URL holds
C1_PathContainment ==
    pathState = "done" =>
        /\ Len(pathOut) >= Len(pathRoot)
        /\ SubSeq(pathOut, 1, Len(pathRoot)) = pathRoot
        /\ LET rest == SubSeq(pathOut, Len(pathRoot) + 1, Len(pathOut)) IN
           \/ rest = <<>>
           \/ /\ rest[1] = "/"
              /\ \A seg \in SegmentsOf(rest) :
                    seg \notin {<<>>, <<".">>, <<".", ".">>}

\* a URL with more '..' than preceding segments: "/a/../.." resolves to the root
C1_Witness ==
    /\ pathState = "done"
    /\ pathUrl = <<"/", "a", "/", ".", ".", "/", ".", ".">>
    /\ pathOut = pathRoot

RECURSIVE Flatten(_)
Flatten(ss) == IF ss = <<>> THEN <<>> ELSE Head(ss) \o Flatten(Tail(ss))

\* the positions of ps whose extension already occurs at an earlier position
DupPositions(ps) ==
    {j \in 1..Len(ps) : \E i \in 1..(j - 1) : ps[i].ext = ps[j].ext}

\* C9: blank lines and comments contribute nothing; building fails, naming
\* the path, the extension and the earlier and later types, on the line where
\* an extension token occurs for the second time; until then (and on success)
\* the table maps exactly the extension tokens seen, each to the first token
\* of its line
C9_MimeDict ==
    LET ps == Flatten(mimeRead)
        dups == DupPositions(ps)
    IN  /\ mimeState # "duperr" =>
              /\ dups = {}
              /\ mimeErr = NoMimeErr
              /\ DOMAIN mimeH = {ps[k].ext : k \in 1..Len(ps)}
              /\ \A k \in 1..Len(ps) : mimeH[ps[k].ext] = ps[k].mime
        /\ mimeState = "duperr" =>
              /\ dups # {}
              /\ DupPositions(Flatten(SubSeq(mimeRead, 1, Len(mimeRead) - 1))) = {}
              /\ LET j == CHOOSE x \in dups : \A y \in dups : x <= y
                     i == CHOOSE x \in 1..(j - 1) : ps[x].ext = ps[j].ext
                 IN  mimeErr = [path |-> DbPath, ext |-> ps[j].ext,
                                old |-> ps[i].mime, new |-> ps[j].mime]

\* "a a" then "A a": extension a is mapped to type a, then to type A
C9_Witness ==
    /\ mimeState = "duperr"
    /\ Len(mimeRead) = 2
    /\ mimeErr = [path |-> DbPath, ext |-> <<"a">>, old |-> <<"a">>, new |-> <<"A">>]

\* the path be_gethdrs opened for the request
RespPath == assemble_file_path(InfoPath, req.url)

\* C2: when a GET is answered 200, the content-length header equals the
\* number of bytes the stream has yielded when it signals its end, whatever
\* happened to the file since it was opened
C2_ContentLengthIsBodyLength ==
    (phase = "body" /\ resp.status = 200 /\ req.method = "GET" /\ stream.last = "End")
        => /\ stream.delivered = resp.cl
           /\ resp.hdrs["content-length"] = <<ToString(stream.delivered)>>

\* a step in which the host's pull call changed the stream
PullStep == phase = "body" /\ phase' = "body" /\ stream' # stream

\* C3: the bytes delivered never exceed the size recorded at the open (they
\* and the remaining count always add up to it); a pull delivers at most
\* min(buffer capacity, remaining), never raises the remaining count, and with
\* nothing remaining answers a non-empty buffer with End and 0 bytes
C3_StreamCap ==
    /\ [](phase = "body" =>
            /\ stream.delivered <= resp.cl
            /\ stream.delivered + stream.limit = resp.cl)
    /\ [][PullStep =>
            /\ stream'.lastN <= Min(stream'.lastCap, stream.limit)
            /\ stream'.delivered = stream.delivered + stream'.lastN
            /\ stream'.limit <= stream.limit
            /\ (stream.limit = 0 /\ stream'.lastCap > 0)
                  => (stream'.last = "End" /\ stream'.lastN = 0)]_vars

\* the file has grown since the open, the stream has delivered the recorded
\* size and answered the next pull with End
C3_Witness ==
    /\ phase = "body"
    /\ resp.cl > 0
    /\ handle.size > resp.cl
    /\ stream.delivered = resp.cl
    /\ stream.last = "End"
    /\ stream.lastCap > 0

\* the decision table of the status and the body
DecisionTable ==
    /\ resp.status \in {200, 304, 405}
    /\ resp.status = 405 <=> req.method \notin {"GET", "HEAD"}
    /\ req.method \in {"GET", "HEAD"} => (resp.status = 304 <=> resp.is304)
    /\ resp.attached <=> (resp.status = 200 /\ req.method = "GET")

FileAsAnswered ==
    /\ file.exists
    /\ file.ino = resp.ino
    /\ file.size = resp.cl
    /\ file.mtime = resp.mtime

\* C5: with inode, size and modification time unchanged between two answered
\* requests, a repeated GET gets the same status, etag and content-length,
\* and a GET or HEAD whose if-none-match is the earlier etag, verbatim or
\* behind W/, gets 304 with the same etag and content-length and no stream
C5_ValidatorRoundTrip ==
    [][(/\ phase = "done"
        /\ file' = file
        /\ FileAsAnswered
        /\ resp.ret = 0 /\ "etag" \in DOMAIN resp.hdrs
        /\ resp'.ret = 0)
       => /\ (req.method = "GET" /\ req' = req)
                => /\ resp'.status = resp.status
                   /\ resp'.hdrs["etag"] = resp.hdrs["etag"]
                   /\ resp'.hdrs["content-length"] = resp.hdrs["content-length"]
          /\ (/\ req'.method \in {"GET", "HEAD"}
              /\ req'.inm.present
              /\ req'.inm.v \in {resp.hdrs["etag"], Weak(resp.hdrs["etag"])})
                => /\ resp'.status = 304
                   /\ resp'.hdrs["etag"] = resp.hdrs["etag"]
                   /\ resp'.hdrs["content-length"] = resp.hdrs["content-length"]
                   /\ ~resp'.attached
                   /\ phase' = "done"]_vars

\* a HEAD carrying W/ and the etag of the response before is answered 304
C5_Witness ==
    /\ phase = "done"
    /\ resp.ret = 0
    /\ req.method = "HEAD"
    /\ req.inm = Hdr(Weak(resp.etag))
    /\ resp.status = 304
    /\ resp.hdrs["etag"] = resp.etag

\* C6: with if-none-match present the decision is whether it equals the etag,
\* directly or behind W/, and if-modified-since is not consulted; without it,
\* if-modified-since decides: not-modified exactly when it parses and is
\* strictly later than the modification time; with neither, modified
C6_ConditionalOrder ==
    (phase # "idle" /\ resp.failedAt \notin {"open", "stat"}) =>
        /\ req.inm.present =>
              (resp.is304 <=> req.inm.v \in {resp.etag, Weak(resp.etag)})
        /\ (~req.inm.present /\ req.ims.present) =>
              (resp.is304 <=> \E n \in 0..MaxSec :
                                 /\ req.ims.v = DateText(n)
                                 /\ n * TicksPerSec > resp.mtime)
        /\ (~req.inm.present /\ ~req.ims.present) => ~resp.is304

\* an if-none-match that does not match wins over an if-modified-since later
\* than the modification time
C6_Witness ==
    /\ phase # "idle"
    /\ resp.ret = 0
    /\ req.method = "GET"
    /\ req.inm.present
    /\ req.inm.v \notin {resp.etag, Weak(resp.etag)}
    /\ \E n \in 0..MaxSec :
          req.ims = Hdr(DateText(n)) /\ n * TicksPerSec > resp.mtime
    /\ resp.status = 200

\* C7: a handle is never released more often than opened; while a stream is
\* attached the one handle is open and owned by it; once the request is over
\* (the handler has returned and an attached stream has been finalised) every
\* handle opened has been released exactly once
C7_HandleReleasedOnce ==
    /\ handle.released <= handle.opened
    /\ phase = "body" =>
          (resp.attached /\ handle.opened = 1 /\ handle.released = 0)
    /\ phase = "done" =>
          /\ handle.released = handle.opened
          /\ handle.opened = 1 <=> resp.failedAt # "open"

\* the handler failed after attaching the stream, and the host's close has
\* released the handle
C7_Witness ==
    /\ phase = "done"
    /\ resp.attached
    /\ resp.ret = -1
    /\ resp.failedAt = "etag"
    /\ handle.opened = 1
    /\ handle.released = 1

\* C8: a request whose file cannot be opened or stat'ed, whatever its method
\* and headers, ends in a fetch failure: return -1, no status, no headers, no
\* stream, one call of ctx.fail and one attempt to open; and a request for a
\* path that names nothing ends so
C8_OpenFailure ==
    /\ []((phase # "idle" /\ resp.failedAt \in {"open", "stat"}) =>
            /\ phase = "done"
            /\ resp.ret = -1
            /\ resp.status = 0
            /\ resp.hdrs = EmptyMap
            /\ ~resp.attached
            /\ resp.fails = 1
            /\ resp.opens = 1)
    /\ [][(/\ phase \in {"idle", "done"}
           /\ file' = file
           /\ ~file.exists
           /\ <<req, resp, phase>>' # <<req, resp, phase>>)
          => (resp'.failedAt = "open" /\ resp'.ret = -1 /\ resp'.status = 0)]_vars

\* a PUT with a matching-looking if-none-match for a path that names nothing
C8_Witness ==
    /\ phase = "done"
    /\ ~file.exists
    /\ req.method = "PUT"
    /\ req.inm.present
    /\ resp.failedAt = "open"
    /\ resp.ret = -1
    /\ resp.status = 0

\* the content-type rule
ContentTypeRule ==
    LET ext == Extension(RespPath)
        mapped == /\ resp.cl > 0
                  /\ mimes.some
                  /\ ext.present
                  /\ ext.v \in DOMAIN mimes.h
    IN  /\ "content-type" \in DOMAIN resp.hdrs <=> mapped
        /\ mapped => resp.hdrs["content-type"] = mimes.h[ext.v]

\* C10 as stated: every response the handler produces carries a content-type
\* iff the file is not empty and the table maps the path's extension
C10_ContentTypeEveryResponse ==
    (phase # "idle" /\ resp.ret = 0) => ContentTypeRule

\* C10 amended: a 200 or 304 response carries a content-type iff the file is
\* not empty and the backend has a table that maps the path's extension, and
\* then it is the mapped type; a 405 response carries no header at all
C10_ContentTypeWhenAllowed ==
    (phase # "idle" /\ resp.ret = 0) =>
        /\ resp.status \in {200, 304} => ContentTypeRule
        /\ resp.status = 405 => resp.hdrs = EmptyMap

\* an empty file with a mapped extension is answered 200 without content-type
C10_Witness ==
    /\ phase # "idle"
    /\ resp.ret = 0
    /\ resp.status = 200
    /\ resp.cl = 0
    /\ req.url = UrlMapped
    /\ mimes.some
    /\ "content-type" \notin DOMAIN resp.hdrs

\* ======================================================================
\* specifications
\* ======================================================================
\* nothing has run yet; the backend has no table and the path names nothing
Init ==
    /\ PathIdle /\ MimeIdle /\ ReqIdle
    /\ mimes = NoMimes
    /\ file = NoFile

\* a backend built by root::new with a table, over a file of any age or none
InitReq ==
    /\ PathIdle /\ MimeIdle /\ ReqIdle
    /\ mimes = MimesOfNew(SampleDb)
    /\ file \in FilesTimed

\* a backend with a table, over a file of any inode and size or none
InitEtag ==
    /\ PathIdle /\ MimeIdle /\ ReqIdle
    /\ mimes = MimesOfNew(SampleDb)
    /\ file \in FilesIdent

\* a backend with a table over a file of any size
InitStream ==
    /\ PathIdle /\ MimeIdle /\ ReqIdle
    /\ mimes = MimesOfNew(SampleDb)
    /\ file \in {f \in Files : f.exists /\ f.ino = 1 /\ f.mtime = 0}

\* a backend with or without a table over a file of any size
InitType ==
    /\ PathIdle /\ MimeIdle /\ ReqIdle
    /\ mimes \in {NoMimes, MimesOfNew(SampleDb)}
    /\ file \in {f \in Files : f.exists /\ f.ino = 1 /\ f.mtime = 0}

NextPath == AssemblePath
SpecPath == Init /\ [][NextPath]_vars

NextMime == MimeReadLine \/ MimeIoError \/ MimeEof
SpecMime == Init /\ [][NextMime]_vars

\* requests one after the other for one URL, bodies abandoned unread
NextReq == BeGethdrs \/ VfpFini \/ FsTouch
SpecReq == InitReq /\ [][NextReq]_vars

\* requests that carry back the etag of the response before
NextEtag == BeGethdrsEtag \/ VfpFini \/ FsReplace
SpecEtag == InitEtag /\ [][NextEtag]_vars

\* requests for several URLs, with and without a table
NextType == BeGethdrsUrl \/ VfpFini \/ FsResize
SpecType == InitType /\ [][NextType]_vars

\* the delivery of bodies while the file is resized under the stream
NextStream == BeGethdrsPlain \/ VfpPull \/ VfpFini \/ FsResize
SpecStream == InitStream /\ [][NextStream]_vars

====
